---- MODULE Spec2Model ----
(***************************************************************************)
(* Model of src/chatbot_llm.py: the FlowboticsChatbotOptimized object, its *)
(* conversation history, the synchronous chat turn, the stream_chat        *)
(* generator (one frame per generator object, advanced by the caller),     *)
(* clear_history and save_conversation.                                    *)
(*                                                                         *)
(* A text is a sequence of string tokens; concatenation of texts is \o.    *)
(* User messages are spelled character by character so that lower() and    *)
(* strip() are computed; literals of the source are single tokens.         *)
(***************************************************************************)
EXTENDS Integers, Sequences, FiniteSets, TLC

(* ------------------------------ bounds -------------------------------- *)

\* Calls of chat and stream_chat made after the initial state.
MaxTurns == 1
\* Completed earlier turns the initial history may already hold.
MaxPrior == 5
\* Generator objects of stream_chat that may exist.
MaxStreams == 2
\* Non-empty fragments one gateway stream delivers at most.
MaxFragments == 2
MaxCalls == 2

(* -------------------------- program constants ------------------------- *)

\* conversation_history[-10:]
WindowSize == 10

\* self.system_prompt
system_prompt == <<"You are an AI assistant for Flowbotics, ...">>

\* greetings = ['hi', 'hey', 'hello', 'hola', 'yo', 'sup', 'wassup']
greetings ==
    { <<"h","i">>, <<"h","e","y">>, <<"h","e","l","l","o">>,
      <<"h","o","l","a">>, <<"y","o">>, <<"s","u","p">>,
      <<"w","a","s","s","u","p">> }

\* chat: the apology that replaces the response when the gateway fails
chat_apology ==
    <<"I apologize, but I encountered an error.", " Please try again.">>

\* stream_chat: error_msg
error_msg == <<"I apologize, but I encountered an error.">>

(* ------------------------------ str helpers --------------------------- *)

\* str.lower() on one character
LowerChar(c) ==
    CASE c = "H" -> "h"
      [] c = "I" -> "i"
      [] c = "Y" -> "y"
      [] c = "O" -> "o"
      [] c = "U" -> "u"
      [] c = "Q" -> "q"
      [] c = "E" -> "e"
      [] c = "X" -> "x"
      [] c = "T" -> "t"
      [] OTHER -> c

\* str.lower()
Lower(t) == [i \in 1..Len(t) |-> LowerChar(t[i])]

IsSpace(c) == c \in {" ", "\n", "\t"}

\* str.strip(): drop leading and trailing whitespace
RECURSIVE LStrip(_)
LStrip(t) ==
    IF t = <<>> THEN <<>>
    ELSE IF IsSpace(Head(t)) THEN LStrip(Tail(t)) ELSE t

RECURSIVE RStrip(_)
RStrip(t) ==
    IF t = <<>> THEN <<>>
    ELSE IF IsSpace(t[Len(t)]) THEN RStrip(SubSeq(t, 1, Len(t) - 1)) ELSE t

Strip(t) == RStrip(LStrip(t))

\* IsGreeting without lower() and strip().
IsGreeting_exact(user_message) == user_message \in greetings

\* is_greeting = user_message.lower().strip() in greetings
IsGreeting(user_message) == Strip(Lower(user_message)) \in greetings

\* str.upper() on a role name
Upper(role) ==
    CASE role = "user" -> "USER"
      [] role = "assistant" -> "ASSISTANT"
      [] role = "system" -> "SYSTEM"
      [] OTHER -> role

\* sep.join(parts)
RECURSIVE Join(_, _)
Join(sep, parts) ==
    IF parts = <<>> THEN <<>>
    ELSE IF Len(parts) = 1 THEN parts[1]
    ELSE parts[1] \o sep \o Join(sep, Tail(parts))

Min(a, b) == IF a <= b THEN a ELSE b

\* list[-n:]
LastN(xs, n) ==
    IF Len(xs) <= n THEN xs ELSE SubSeq(xs, Len(xs) - n + 1, Len(xs))

\* zip(a, b)
Zip(a, b) == [i \in 1..Min(Len(a), Len(b)) |-> <<a[i], b[i]>>]

(* --------------------------- environment ------------------------------ *)

\* What the caller may pass as user_message.
UserMessages ==
    { <<" ","H","i"," ">>,          \* a greeting after lower().strip()
      <<"y","o","u">> }             \* no greeting, though it starts with "yo"

\* Passage documents and metadata the vector store may hold.
Doc1 == <<"doc-1">>
Doc2 == <<"doc-2">>
Meta1 == [has_source |-> TRUE, source |-> <<"faq.md">>]
Meta2 == [has_source |-> TRUE, source |-> <<"pricing.md">>]
MetaNoSource == [has_source |-> FALSE, source |-> <<>>]

\* What self.vectordb.query(question, n_results) may do: raise, return None,
\* or return a dict with 'documents' and 'metadatas' (lists of lists).
NoQuery ==
    [kind |-> "no-query", documents |-> <<>>, metadatas |-> <<>>]
QueryRaises ==
    [kind |-> "raises", documents |-> <<>>, metadatas |-> <<>>]
QueryNone ==
    [kind |-> "none", documents |-> <<>>, metadatas |-> <<>>]
QueryDict(docs, metas) ==
    [kind |-> "dict", documents |-> docs, metadatas |-> metas]

\* Well-formed results: no passage, or two passages.
WellFormedResults ==
    { QueryDict(<< <<>> >>, << <<>> >>),
      QueryDict(<< <<Doc1, Doc2>> >>, << <<Meta1, Meta2>> >>) }

\* Malformed results: None, no inner list, a metadata without 'source'.
MalformedResults ==
    { QueryNone,
      QueryDict(<<>>, <<>>),
      QueryDict(<< <<Doc1>> >>, << <<MetaNoSource>> >>) }

RetrievalOutcomes == {QueryRaises} \cup WellFormedResults \cup MalformedResults

\* The reply the model completes with. Without stream=True the gateway
\* returns it whole; with stream=True it sends it token by token, and may
\* stop or fail after any number of them.
Reply == <<"a", "b", "c", "d">>
Replies == { SubSeq(Reply, 1, MaxFragments) }
Fragment(i) == <<Reply[i]>>

\* What self.client.chat.completions.create(...) may do without stream=True.
GatewayOutcomes ==
    {[fails |-> TRUE, text |-> <<>>]}
        \cup {[fails |-> FALSE, text |-> t] : t \in Replies}

(* ------------------------ get_relevant_context ------------------------ *)

\* ContextPart giving the source label alone, without the passage text.
ContextPart_label_only(doc, meta) == <<"[Source: ">> \o meta.source \o <<"]\n">>

\* f"[Source: {meta['source']}]\n{doc}"
ContextPart(doc, meta) == <<"[Source: ">> \o meta.source \o <<"]\n">> \o doc

\* get_relevant_context(question): the query result r decides the outcome.
\* raised: an exception leaves the function (from query itself, from
\* results['documents'][0], results['metadatas'][0] or meta['source']).
get_relevant_context(r) ==
    LET Raise == [raised |-> TRUE, context |-> <<>>, sources |-> <<>>]
        Empty == [raised |-> FALSE, context |-> <<>>, sources |-> <<>>]
    IN  IF r.kind = "raises" THEN Raise
        ELSE IF r.kind = "none" THEN Empty                 \* not results
        ELSE IF r.documents = <<>> THEN Raise              \* IndexError
        ELSE IF r.documents[1] = <<>> THEN Empty
        ELSE IF r.metadatas = <<>> THEN Raise              \* IndexError
        ELSE LET pairs == Zip(r.documents[1], r.metadatas[1])
             IN  IF \E i \in 1..Len(pairs) : ~pairs[i][2].has_source
                 THEN Raise                                \* KeyError
                 ELSE [raised |-> FALSE,
                       context |->
                           Join(<<"\n\n---\n\n">>,
                                [i \in 1..Len(pairs) |->
                                    ContextPart(pairs[i][1], pairs[i][2])]),
                       sources |->
                           [i \in 1..Len(pairs) |-> pairs[i][2].source]]

(* --------------------------- prompt assembly -------------------------- *)

\* chat_prompt putting the template around the context even when the
\* context is empty.
chat_prompt_always_wraps(user_message, use_rag, r) ==
    IF use_rag /\ ~IsGreeting(user_message)
    THEN LET c == get_relevant_context(r)
         IN  [raised |-> c.raised, retrieval |-> r, query_calls |-> 1,
              context |-> c.context, sources |-> c.sources,
              prompt |->
                  IF c.raised THEN <<>>
                  ELSE <<"Use this information to answer:\n\n">> \o c.context
                       \o <<"\n\nQuestion: ">> \o user_message
                       \o <<"\n\nAnswer naturally without mentioning the context.">>]
    ELSE [raised |-> FALSE, retrieval |-> NoQuery, query_calls |-> 0,
          context |-> <<>>, sources |-> <<>>, prompt |-> user_message]

\* chat, lines 157-179: greeting test, retrieval, prompt.
\* r is what the vector store does if it is queried.
chat_prompt(user_message, use_rag, r) ==
    IF use_rag /\ ~IsGreeting(user_message)
    THEN LET c == get_relevant_context(r)
         IN  [raised |-> c.raised, retrieval |-> r, query_calls |-> 1,
              context |-> c.context, sources |-> c.sources,
              prompt |->
                  IF c.raised THEN <<>>
                  ELSE IF c.context # <<>>
                  THEN <<"Use this information to answer:\n\n">> \o c.context
                       \o <<"\n\nQuestion: ">> \o user_message
                       \o <<"\n\nAnswer naturally without mentioning the context.">>
                  ELSE user_message]
    ELSE [raised |-> FALSE, retrieval |-> NoQuery, query_calls |-> 0,
          context |-> <<>>, sources |-> <<>>, prompt |-> user_message]

\* stream_chat, lines 227-247: the same steps, written out again there.
stream_prompt(user_message, use_rag, r) ==
    IF use_rag /\ ~IsGreeting(user_message)
    THEN LET c == get_relevant_context(r)
         IN  [raised |-> c.raised, retrieval |-> r, query_calls |-> 1,
              context |-> c.context, sources |-> c.sources,
              prompt |->
                  IF c.raised THEN <<>>
                  ELSE IF c.context # <<>>
                  THEN <<"Use this information to answer:\n\n">> \o c.context
                       \o <<"\n\nQuestion: ">> \o user_message
                       \o <<"\n\nAnswer naturally without mentioning the context.">>
                  ELSE user_message]
    ELSE [raised |-> FALSE, retrieval |-> NoQuery, query_calls |-> 0,
          context |-> <<>>, sources |-> <<>>, prompt |-> user_message]

\* A message of the history or of the list sent to the gateway.
Message(role, content) == [role |-> role, content |-> content]

\* chat_user_entry storing the raw message in place of the prompt.
chat_user_entry_raw(user_message, prompt) == Message("user", user_message)

\* chat, lines 182-185: the entry appended for the user
chat_user_entry(user_message, prompt) == Message("user", prompt)

\* stream_user_entry storing the raw message in place of the prompt.
stream_user_entry_raw(user_message, prompt) == Message("user", user_message)

\* stream_chat, lines 249-252
stream_user_entry(user_message, prompt) == Message("user", prompt)

\* chat_messages with the window taken as the first ten messages.
chat_messages_oldest(history) ==
    <<Message("system", system_prompt)>>
        \o SubSeq(history, 1, Min(WindowSize, Len(history)))

\* chat, lines 188-191: [system prompt] + conversation_history[-10:]
chat_messages(history) ==
    <<Message("system", system_prompt)>> \o LastN(history, WindowSize)

\* stream_chat, lines 254-257
stream_messages(history) ==
    <<Message("system", system_prompt)>> \o LastN(history, WindowSize)

(* ------------------------------- state -------------------------------- *)

VARIABLES
    conversation_history,   \* self.conversation_history
    enable_rlhf,            \* self.enable_rlhf
    last_chat,              \* the chat call that has just ended: its frame
    streams,                \* the frames of the stream_chat generator objects
    transcript,             \* what the save_conversation call just made wrote
    turns,                  \* calls of chat and stream_chat made so far
    loop                    \* interactive_chat: where its while loop stands

vars == <<conversation_history, enable_rlhf, last_chat, streams, transcript,
          turns, loop>>

StreamIds == 1..MaxStreams

\* The frame of one call: its arguments, its locals and what it did to its
\* collaborators and its caller.
\*   pc: chat         "none" | "returned" | "raised"
\*       stream_chat  "unused" | "created" | "yielded_token" |
\*                    "yielded_error" | "done" | "raised" | "closed"
NewFrame(pc, seq, user_message, use_rag) ==
    [pc |-> pc, seq |-> seq,
     user_message |-> user_message, use_rag |-> use_rag,
     started_with |-> <<>>,        \* the history when the body began to run
     user_at |-> 0,                \* where its user entry went in the history
     retrieval |-> NoQuery, query_calls |-> 0,
     context |-> <<>>, sources |-> <<>>, prompt |-> <<>>,
     messages |-> <<>>, gateway_calls |-> 0, gateway_failed |-> FALSE,
     full_response |-> <<>>,       \* assistant_message in chat
     yielded |-> <<>>,             \* fragments handed to the caller
     requested |-> 0,              \* chunks asked of the gateway's stream
     received |-> <<>>,            \* the contents of the chunks that had one
     value |-> <<>>,               \* what chat returned
     relay |-> <<>>,               \* process_interaction calls made
     cleared |-> FALSE,            \* clear_history ran since its user entry
     raised_by |-> "none"]         \* "retrieval" | "relay" when pc = "raised"

NoCall == NewFrame("none", 0, <<>>, FALSE)
Unused == NewFrame("unused", 0, <<>>, FALSE)
NoTranscript == [written |-> FALSE, blocks |-> <<>>]

\* interactive_chat is not running: the chatbot is called directly.
\*   pc: "off" | "input" | "streaming" | "exited"
\*   raw: what input() returned last; did: what the loop took it for
NotRunning == [pc |-> "off", raw |-> <<>>, did |-> "none"]

\* A generator that ended (exhausted, raised or closed) is dropped by its
\* caller when the caller goes on to its next operation.
Ended(fr) == fr.pc \in {"done", "raised", "closed"}
Live(ss) == [s \in StreamIds |-> IF Ended(ss[s]) THEN Unused ELSE ss[s]]

\* A turn made before the initial state: chat("q"*i, use_rag=False),
\* answered by the gateway with "r"*i.
PriorHistory(k) ==
    [j \in 1..(2 * k) |->
        IF j % 2 = 1
        THEN Message("user", [n \in 1..((j + 1) \div 2) |-> "q"])
        ELSE Message("assistant", [n \in 1..(j \div 2) |-> "r"])]

\* __init__ (conversation_history = []), possibly followed by earlier turns.
Init ==
    /\ conversation_history \in {PriorHistory(0), PriorHistory(MaxPrior)}
    /\ enable_rlhf \in BOOLEAN
    /\ last_chat = NoCall
    /\ streams = [s \in StreamIds |-> Unused]
    /\ transcript = NoTranscript
    /\ turns = 0
    /\ loop = NotRunning

\* Notification with the context left out.
Notification_without_context(question, response, context) ==
    [question |-> question, response |-> response, context |-> <<>>]

\* self.rlhf_system.process_interaction(question, response, context, ...)
Notification(question, response, context) ==
    [question |-> question, response |-> response, context |-> context]

(* -------------------------------- chat --------------------------------- *)

\* chat, lines 194-205: the gateway's text, or the apology if it raised
chat_response(g) == IF g.fails THEN chat_apology ELSE g.text

\* chat(user_message, use_rag), lines 145-222, as one step: the vector
\* store, the gateway and the feedback system each answer or raise.
chat(user_message, use_rag) ==
    /\ turns' = turns + 1
    /\ \E r \in RetrievalOutcomes, g \in GatewayOutcomes, relay_ok \in BOOLEAN :
        LET b == chat_prompt(user_message, use_rag, r)
            f0 == [NewFrame("none", turns + 1, user_message, use_rag) EXCEPT
                      !.started_with = conversation_history,
                      !.retrieval = b.retrieval, !.query_calls = b.query_calls]
        IN  IF b.raised
            THEN \* get_relevant_context raised: nothing catches it
                 /\ last_chat' = [f0 EXCEPT !.pc = "raised",
                                            !.raised_by = "retrieval"]
                 /\ UNCHANGED conversation_history
            ELSE LET hist1 == Append(conversation_history,
                                     chat_user_entry(user_message, b.prompt))
                     messages == chat_messages(hist1)
                     assistant_message == chat_response(g)
                     hist2 == Append(hist1,
                                     Message("assistant", assistant_message))
                     f1 == [f0 EXCEPT
                               !.context = b.context, !.sources = b.sources,
                               !.prompt = b.prompt, !.messages = messages,
                               !.user_at = Len(hist1),
                               !.gateway_calls = 1, !.gateway_failed = g.fails,
                               !.full_response = assistant_message]
                 IN  /\ conversation_history' = hist2
                     /\ IF enable_rlhf
                        THEN LET f2 == [f1 EXCEPT !.relay =
                                           Append(@, Notification(user_message,
                                               assistant_message, b.context))]
                             IN  last_chat' =
                                     IF relay_ok
                                     THEN [f2 EXCEPT !.pc = "returned",
                                               !.value = assistant_message]
                                     ELSE [f2 EXCEPT !.pc = "raised",
                                               !.raised_by = "relay"]
                        ELSE last_chat' = [f1 EXCEPT !.pc = "returned",
                                               !.value = assistant_message]
    /\ streams' = Live(streams)
    /\ transcript' = NoTranscript
    /\ UNCHANGED enable_rlhf

(* ----------------------------- stream_chat ----------------------------- *)

\* stream_chat appending the user's message when it is called, as a
\* function that is not a generator would.
stream_chat_eager(s, user_message, use_rag) ==
    /\ Live(streams)[s].pc = "unused"
    /\ \A t \in StreamIds : t < s => Live(streams)[t].pc # "unused"
    /\ turns' = turns + 1
    /\ streams' = [Live(streams) EXCEPT
                      ![s] = NewFrame("created", turns + 1, user_message, use_rag)]
    /\ last_chat' = NoCall
    /\ transcript' = NoTranscript
    /\ conversation_history' =
           Append(conversation_history, Message("user", user_message))
    /\ UNCHANGED enable_rlhf

\* stream_chat(user_message, use_rag): calling a generator function runs
\* none of its body; it makes the generator object s.
stream_chat(s, user_message, use_rag) ==
    /\ Live(streams)[s].pc = "unused"
    /\ \A t \in StreamIds : t < s => Live(streams)[t].pc # "unused"
    /\ turns' = turns + 1
    /\ streams' = [Live(streams) EXCEPT
                      ![s] = NewFrame("created", turns + 1, user_message, use_rag)]
    /\ last_chat' = NoCall
    /\ transcript' = NoTranscript
    /\ UNCHANGED <<conversation_history, enable_rlhf>>

\* stream_finish appending the assistant entry only if there is some text.
stream_finish_skips_empty(s, fr, hist) ==
    /\ conversation_history' =
           IF fr.full_response = <<>> THEN hist
           ELSE Append(hist, Message("assistant", fr.full_response))
    /\ IF enable_rlhf
       THEN \E relay_ok \in BOOLEAN :
               streams' = [Live(streams) EXCEPT ![s] =
                   [fr EXCEPT
                       !.relay = Append(@, Notification(fr.user_message,
                                        fr.full_response, fr.context)),
                       !.pc = IF relay_ok THEN "done" ELSE "raised",
                       !.raised_by = IF relay_ok THEN "none" ELSE "relay"]]
       ELSE streams' = [Live(streams) EXCEPT ![s] = [fr EXCEPT !.pc = "done"]]

\* stream_finish appending nothing once the history was cleared under the
\* turn.
stream_finish_drops_cleared(s, fr, hist) ==
    /\ conversation_history' =
           IF fr.cleared THEN hist
           ELSE Append(hist, Message("assistant", fr.full_response))
    /\ IF enable_rlhf
       THEN \E relay_ok \in BOOLEAN :
               streams' = [Live(streams) EXCEPT ![s] =
                   [fr EXCEPT
                       !.relay = Append(@, Notification(fr.user_message,
                                        fr.full_response, fr.context)),
                       !.pc = IF relay_ok THEN "done" ELSE "raised",
                       !.raised_by = IF relay_ok THEN "none" ELSE "relay"]]
       ELSE streams' = [Live(streams) EXCEPT ![s] = [fr EXCEPT !.pc = "done"]]

\* Lines 283-296: after the loop or after the error fragment was taken.
stream_finish(s, fr, hist) ==
    /\ conversation_history' =
           Append(hist, Message("assistant", fr.full_response))
    /\ IF enable_rlhf
       THEN \E relay_ok \in BOOLEAN :
               streams' = [Live(streams) EXCEPT ![s] =
                   [fr EXCEPT
                       !.relay = Append(@, Notification(fr.user_message,
                                        fr.full_response, fr.context)),
                       !.pc = IF relay_ok THEN "done" ELSE "raised",
                       !.raised_by = IF relay_ok THEN "none" ELSE "relay"]]
       ELSE streams' = [Live(streams) EXCEPT ![s] = [fr EXCEPT !.pc = "done"]]

\* The k-th chunk of the gateway's stream: the first one carries the role
\* and no content, the next ones carry the fragments of the reply.
Chunk(k) == IF k = 1 THEN <<>> ELSE Fragment(k - 1)

\* The chunk the loop stops at after n chunks, skipping those without
\* content (line 272).
NextContent(n) == IF Chunk(n + 1) = <<>> THEN n + 2 ELSE n + 1

\* The requests at which the stream may end or raise after n chunks: where
\* its next chunk with content would have been.
NextRequests(n) == {NextContent(n)}

\* Where the gateway may raise after n chunks: in create, before any chunk
\* was asked for, or when the stream is asked for a chunk.
FailingRequests(n) == (IF n = 0 THEN {0} ELSE {}) \cup NextRequests(n)

\* stream_loop with "full_response = token" for "full_response += token".
stream_loop_overwrites(s, fr, hist) ==
    \/ /\ Len(fr.yielded) < MaxFragments
       /\ streams' = [Live(streams) EXCEPT ![s] =
              [fr EXCEPT !.pc = "yielded_token",
                         !.requested = NextContent(fr.requested),
                         !.received = Append(@, Chunk(NextContent(fr.requested))),
                         !.full_response = Chunk(NextContent(fr.requested)),
                         !.yielded = Append(@, Chunk(NextContent(fr.requested)))]]
       /\ conversation_history' = hist
    \/ /\ \E k \in FailingRequests(fr.requested) :
           streams' = [Live(streams) EXCEPT ![s] =
              [fr EXCEPT !.pc = "yielded_error",
                         !.requested = k,
                         !.gateway_failed = TRUE,
                         !.full_response = error_msg,
                         !.yielded = Append(@, error_msg)]]
       /\ conversation_history' = hist
    \/ \E k \in NextRequests(fr.requested) :
           stream_finish(s, [fr EXCEPT !.requested = k], hist)

\* stream_loop with "full_response += error_msg" for "full_response = error_msg".
stream_loop_keeps_partial(s, fr, hist) ==
    \/ /\ Len(fr.yielded) < MaxFragments
       /\ streams' = [Live(streams) EXCEPT ![s] =
              [fr EXCEPT !.pc = "yielded_token",
                         !.requested = NextContent(fr.requested),
                         !.received = Append(@, Chunk(NextContent(fr.requested))),
                         !.full_response = @ \o Chunk(NextContent(fr.requested)),
                         !.yielded = Append(@, Chunk(NextContent(fr.requested)))]]
       /\ conversation_history' = hist
    \/ /\ \E k \in FailingRequests(fr.requested) :
           streams' = [Live(streams) EXCEPT ![s] =
              [fr EXCEPT !.pc = "yielded_error",
                         !.requested = k,
                         !.gateway_failed = TRUE,
                         !.full_response = @ \o error_msg,
                         !.yielded = Append(@, error_msg)]]
       /\ conversation_history' = hist
    \/ \E k \in NextRequests(fr.requested) :
           stream_finish(s, [fr EXCEPT !.requested = k], hist)

\* stream_loop asking the stream for one more chunk before it yields.
stream_loop_reads_ahead(s, fr, hist) ==
    \/ /\ Len(fr.yielded) < MaxFragments
       /\ streams' = [Live(streams) EXCEPT ![s] =
              [fr EXCEPT !.pc = "yielded_token",
                         !.requested = NextContent(fr.requested) + 1,
                         !.received = Append(@, Chunk(NextContent(fr.requested))),
                         !.full_response = @ \o Chunk(NextContent(fr.requested)),
                         !.yielded = Append(@, Chunk(NextContent(fr.requested)))]]
       /\ conversation_history' = hist
    \/ /\ \E k \in FailingRequests(fr.requested) :
           streams' = [Live(streams) EXCEPT ![s] =
              [fr EXCEPT !.pc = "yielded_error",
                         !.requested = k,
                         !.gateway_failed = TRUE,
                         !.full_response = error_msg,
                         !.yielded = Append(@, error_msg)]]
       /\ conversation_history' = hist
    \/ \E k \in NextRequests(fr.requested) :
           stream_finish(s, [fr EXCEPT !.requested = k], hist)

\* Lines 271-281: the for loop from its head up to the next yield or its end.
stream_loop(s, fr, hist) ==
    \/ \* chunks without content are passed over, then a chunk with content:
       \* lines 271-275
       /\ Len(fr.yielded) < MaxFragments
       /\ streams' = [Live(streams) EXCEPT ![s] =
              [fr EXCEPT !.pc = "yielded_token",
                         !.requested = NextContent(fr.requested),
                         !.received = Append(@, Chunk(NextContent(fr.requested))),
                         !.full_response = @ \o Chunk(NextContent(fr.requested)),
                         !.yielded = Append(@, Chunk(NextContent(fr.requested)))]]
       /\ conversation_history' = hist
    \/ \* create raises (before any request) or the stream raises when asked
       \* for a chunk: except Exception, lines 277-281
       /\ \E k \in FailingRequests(fr.requested) :
           streams' = [Live(streams) EXCEPT ![s] =
              [fr EXCEPT !.pc = "yielded_error",
                         !.requested = k,
                         !.gateway_failed = TRUE,
                         !.full_response = error_msg,
                         !.yielded = Append(@, error_msg)]]
       /\ conversation_history' = hist
    \/ \* the stream is exhausted when asked for a chunk
       \E k \in NextRequests(fr.requested) :
           stream_finish(s, [fr EXCEPT !.requested = k], hist)

\* The first next() on generator s: lines 227-275 up to the first yield.
next_first(s) ==
    /\ streams[s].pc = "created"
    /\ \E r \in RetrievalOutcomes :
        LET fr == streams[s]
            b == stream_prompt(fr.user_message, fr.use_rag, r)
            f0 == [fr EXCEPT !.started_with = conversation_history,
                             !.retrieval = b.retrieval,
                             !.query_calls = b.query_calls]
        IN  IF b.raised
            THEN /\ streams' = [Live(streams) EXCEPT ![s] =
                        [f0 EXCEPT !.pc = "raised", !.raised_by = "retrieval"]]
                 /\ UNCHANGED conversation_history
            ELSE LET hist1 == Append(conversation_history,
                                     stream_user_entry(fr.user_message, b.prompt))
                     f1 == [f0 EXCEPT
                               !.context = b.context, !.sources = b.sources,
                               !.prompt = b.prompt, !.user_at = Len(hist1),
                               !.messages = stream_messages(hist1),
                               !.gateway_calls = 1]
                 IN  stream_loop(s, f1, hist1)
    /\ last_chat' = NoCall
    /\ transcript' = NoTranscript
    /\ UNCHANGED <<enable_rlhf, turns>>

\* next() on generator s suspended at "yield token" (line 275).
next_token(s) ==
    /\ streams[s].pc = "yielded_token"
    /\ stream_loop(s, streams[s], conversation_history)
    /\ last_chat' = NoCall
    /\ transcript' = NoTranscript
    /\ UNCHANGED <<enable_rlhf, turns>>

\* next() on generator s suspended at "yield error_msg" (line 281).
next_error(s) ==
    /\ streams[s].pc = "yielded_error"
    /\ stream_finish(s, streams[s], conversation_history)
    /\ last_chat' = NoCall
    /\ transcript' = NoTranscript
    /\ UNCHANGED <<enable_rlhf, turns>>

\* close() on generator s, or its collection once the caller dropped it:
\* GeneratorExit is raised at the yield; "except Exception" does not catch
\* it, and nothing after the yield runs.
close(s) ==
    /\ streams[s].pc \in {"created", "yielded_token", "yielded_error"}
    /\ streams' = [Live(streams) EXCEPT ![s] = [streams[s] EXCEPT !.pc = "closed"]]
    /\ last_chat' = NoCall
    /\ transcript' = NoTranscript
    /\ UNCHANGED <<conversation_history, enable_rlhf, turns>>

(* -------------------- clear_history, save_conversation ----------------- *)

\* cleared_history keeping the last exchange of the history.
cleared_history_keeps_last == LastN(conversation_history, 2)

\* line 314: self.conversation_history = []
cleared_history == <<>>

\* The generators that had appended their user entry note that the history
\* was cleared under them.
MarkCleared(ss) ==
    [s \in StreamIds |->
        IF ss[s].user_at > 0 THEN [ss[s] EXCEPT !.cleared = TRUE] ELSE ss[s]]

\* clear_history(), lines 312-315
clear_history ==
    /\ conversation_history' = cleared_history
    /\ last_chat' = NoCall
    /\ streams' = MarkCleared(Live(streams))
    /\ transcript' = NoTranscript
    /\ UNCHANGED <<enable_rlhf, turns>>

\* save_conversation writing the ten-message window only.
save_conversation_window ==
    /\ transcript' =
           [written |-> TRUE,
            blocks |-> [i \in 1..Len(LastN(conversation_history, WindowSize)) |->
                           <<Upper(LastN(conversation_history, WindowSize)[i].role),
                             ":\n">>
                               \o LastN(conversation_history, WindowSize)[i].content
                               \o <<"\n\n">>]]
    /\ last_chat' = NoCall
    /\ streams' = Live(streams)
    /\ UNCHANGED <<conversation_history, enable_rlhf, turns>>

\* f.write(f"{role}:\n{content}\n\n") for one message
TranscriptBlock(msg) ==
    <<Upper(msg.role), ":\n">> \o msg.content \o <<"\n\n">>

\* save_conversation(): the file opened with 'w' holds one block per message.
save_conversation ==
    /\ transcript' =
           [written |-> TRUE,
            blocks |-> [i \in 1..Len(conversation_history) |->
                           TranscriptBlock(conversation_history[i])]]
    /\ last_chat' = NoCall
    /\ streams' = Live(streams)
    /\ UNCHANGED <<conversation_history, enable_rlhf, turns>>

(* --------------------------- interactive_chat -------------------------- *)

\* What the user may type at the "You: " prompt.
LoopInputs ==
    { <<>>, <<" ", " ">>,
      <<"q", "u", "i", "t">>, <<" ", "Q", "u", "i", "t", " ">>,
      <<"E", "X", "I", "T">>, <<"q">>,
      <<"s", "t", "a", "t", "s">>, <<"I", "m", "p", "r", "o", "v", "e">>,
      <<"c", "l", "e", "a", "r">>, <<"s", "a", "v", "e">>,
      <<"q", "u", "i", "t", " ", "i", "t">>,
      <<"y", "o", "u">>, <<" ", "H", "i", " ">> }

\* quit_tokens without the one-letter form.
quit_tokens_words == { <<"q", "u", "i", "t">>, <<"e", "x", "i", "t">> }

\* line 367: ['quit', 'exit', 'q']
quit_tokens == { <<"q", "u", "i", "t">>, <<"e", "x", "i", "t">>, <<"q">> }

\* The chatbot is left alone by this iteration of the loop.
LoopLeavesChatbot ==
    /\ last_chat' = NoCall
    /\ streams' = Live(streams)
    /\ transcript' = NoTranscript
    /\ UNCHANGED <<conversation_history, enable_rlhf, turns>>

\* The chatbot of lines 348-351 (enable_rlhf=True), the loop at its first
\* input().
InitLoop ==
    /\ conversation_history = <<>>
    /\ enable_rlhf = TRUE
    /\ last_chat = NoCall
    /\ streams = [s \in StreamIds |-> Unused]
    /\ transcript = NoTranscript
    /\ turns = 0
    /\ loop = [pc |-> "input", raw |-> <<>>, did |-> "none"]

\* Lines 359-388: one pass of the while loop from input() to its continue,
\* its break or the head of the for loop over stream_chat(user_input).
interactive_chat_input(raw) ==
    /\ loop.pc = "input"
    /\ LET user_input == Strip(raw)
       IN  IF user_input = <<>>
           THEN /\ loop' = [pc |-> "input", raw |-> raw, did |-> "ignored"]
                /\ LoopLeavesChatbot
           ELSE IF Lower(user_input) \in quit_tokens
           THEN /\ loop' = [pc |-> "exited", raw |-> raw, did |-> "quit"]
                /\ LoopLeavesChatbot
           ELSE IF Lower(user_input) = <<"s", "t", "a", "t", "s">>
           THEN /\ loop' = [pc |-> "input", raw |-> raw, did |-> "stats"]
                /\ LoopLeavesChatbot
           ELSE IF Lower(user_input) = <<"i", "m", "p", "r", "o", "v", "e">>
           THEN /\ loop' = [pc |-> "input", raw |-> raw, did |-> "improve"]
                /\ LoopLeavesChatbot
           ELSE IF Lower(user_input) = <<"c", "l", "e", "a", "r">>
           THEN /\ loop' = [pc |-> "input", raw |-> raw, did |-> "clear"]
                /\ clear_history
           ELSE IF Lower(user_input) = <<"s", "a", "v", "e">>
           THEN /\ loop' = [pc |-> "input", raw |-> raw, did |-> "save"]
                /\ save_conversation
           ELSE /\ turns < MaxTurns
                /\ loop' = [pc |-> "streaming", raw |-> raw, did |-> "chat"]
                /\ stream_chat(1, user_input, TRUE)

\* Lines 388-392 and 397-399: the for loop takes the next token of the
\* generator and prints it; when the generator ends or raises (except
\* Exception prints the error) the while loop goes on to the next input().
interactive_chat_token ==
    /\ loop.pc = "streaming"
    /\ next_first(1) \/ next_token(1) \/ next_error(1)
    /\ loop' = [loop EXCEPT
                   !.pc = IF Ended(streams'[1]) THEN "input" ELSE "streaming"]

\* Lines 394-396: KeyboardInterrupt at input() or between two tokens breaks
\* out of the while loop; the generator of an unfinished turn is dropped.
interactive_chat_interrupt ==
    /\ loop.pc \in {"input", "streaming"}
    /\ loop' = [loop EXCEPT !.pc = "exited", !.did = "interrupt"]
    /\ IF loop.pc = "streaming" THEN close(1) ELSE LoopLeavesChatbot

(* ------------------------------ the system ----------------------------- *)

\* The chatbot called directly, interactive_chat not running.
Next ==
    \/ /\ turns < MaxTurns
       /\ \E m \in UserMessages, use_rag \in BOOLEAN : chat(m, use_rag)
       /\ UNCHANGED loop
    \/ /\ turns < MaxTurns
       /\ \E s \in StreamIds, m \in UserMessages, use_rag \in BOOLEAN :
              stream_chat(s, m, use_rag)
       /\ UNCHANGED loop
    \/ (\E s \in StreamIds : next_first(s)) /\ UNCHANGED loop
    \/ (\E s \in StreamIds : next_token(s)) /\ UNCHANGED loop
    \/ (\E s \in StreamIds : next_error(s)) /\ UNCHANGED loop
    \/ (\E s \in StreamIds : close(s)) /\ UNCHANGED loop
    \/ clear_history /\ UNCHANGED loop
    \/ save_conversation /\ UNCHANGED loop

Spec == Init /\ [][Next]_vars

\* Some generator is suspended or not yet started.
InFlight ==
    \E s \in StreamIds :
        streams[s].pc \in {"created", "yielded_token", "yielded_error"}

\* The chatbot called by one caller that makes one call at a time and takes
\* every stream_chat generator to its end before its next call.
NextSerial ==
    \/ /\ turns < MaxTurns /\ ~InFlight
       /\ \E m \in UserMessages, use_rag \in BOOLEAN : chat(m, use_rag)
       /\ UNCHANGED loop
    \/ /\ turns < MaxTurns /\ ~InFlight
       /\ \E s \in StreamIds, m \in UserMessages, use_rag \in BOOLEAN :
              stream_chat(s, m, use_rag)
       /\ UNCHANGED loop
    \/ (\E s \in StreamIds : next_first(s)) /\ UNCHANGED loop
    \/ (\E s \in StreamIds : next_token(s)) /\ UNCHANGED loop
    \/ (\E s \in StreamIds : next_error(s)) /\ UNCHANGED loop
    \/ ~InFlight /\ clear_history /\ UNCHANGED loop
    \/ ~InFlight /\ save_conversation /\ UNCHANGED loop

SpecSerial == Init /\ [][NextSerial]_vars

\* Callers that hold several stream_chat generators at once, ask each for
\* its first fragment in any order and drop them at any time.
NextStreams ==
    \/ /\ turns < MaxCalls
       /\ \E s \in StreamIds, m \in UserMessages : stream_chat(s, m, TRUE)
       /\ UNCHANGED loop
    \/ (\E s \in StreamIds : next_first(s)) /\ UNCHANGED loop
    \/ (\E s \in StreamIds : close(s)) /\ UNCHANGED loop

\* A chatbot without feedback that has had MaxPrior turns.
InitStreams ==
    /\ conversation_history = PriorHistory(MaxPrior)
    /\ enable_rlhf = FALSE
    /\ last_chat = NoCall
    /\ streams = [s \in StreamIds |-> Unused]
    /\ transcript = NoTranscript
    /\ turns = 0
    /\ loop = NotRunning

SpecStreams == InitStreams /\ [][NextStreams]_vars

\* interactive_chat driving the chatbot.
NextLoop ==
    \/ \E raw \in LoopInputs : interactive_chat_input(raw)
    \/ interactive_chat_token
    \/ interactive_chat_interrupt

SpecLoop == InitLoop /\ [][NextLoop]_vars

(* ------------------------------- claims -------------------------------- *)

\* The frames that have run some of their body.
Frames ==
    {last_chat} \cup {streams[s] : s \in StreamIds}

HistoryLast == conversation_history[Len(conversation_history)]

\* The fragments of a sequence put one after the other.
RECURSIVE Concat(_)
Concat(ts) == IF ts = <<>> THEN <<>> ELSE Head(ts) \o Concat(Tail(ts))

\* C1: when the gateway call fails during chat, chat raises nothing and
\* returns the fixed non-empty apology, and the history has grown by exactly
\* the user entry followed by an assistant entry holding that apology.
C1_ChatSurvivesGatewayFailure ==
    (last_chat.pc # "none" /\ last_chat.gateway_failed) =>
        /\ last_chat.pc = "returned"
        /\ last_chat.value = chat_apology
        /\ last_chat.value # <<>>
        /\ conversation_history =
               last_chat.started_with
                   \o << [role |-> "user", content |-> last_chat.prompt],
                         [role |-> "assistant", content |-> last_chat.value] >>

\* A stream_chat generator that ran to its end: the loop was left and the
\* assistant entry appended (the feedback call after it may have raised).
ConsumedToEnd(fr) ==
    fr.pc = "done" \/ (fr.pc = "raised" /\ fr.raised_by = "relay")

\* C2 (as claimed): for every stream_chat turn consumed to the end, the
\* concatenation of the fragments yielded equals the content of the
\* assistant entry the turn appended, whether the gateway stream succeeded
\* or failed at any point.
C2_YieldedEqualsEntry_Claimed ==
    \A s \in StreamIds :
        ConsumedToEnd(streams[s]) =>
            /\ conversation_history # <<>>
            /\ HistoryLast.role = "assistant"
            /\ Concat(streams[s].yielded) = HistoryLast.content

\* C2 (amended): the concatenation equals the assistant entry when the
\* gateway stream succeeds or fails before its first fragment; when it fails
\* after k >= 1 fragments, the entry holds the error fragment alone, which
\* is the last fragment yielded after the k fragments.
C2_YieldedEqualsEntry ==
    \A s \in StreamIds :
        ConsumedToEnd(streams[s]) =>
            LET fr == streams[s]
                n == Len(fr.yielded)
            IN  /\ conversation_history # <<>>
                /\ HistoryLast.role = "assistant"
                /\ IF fr.gateway_failed /\ n > 1
                   THEN /\ HistoryLast.content = fr.yielded[n]
                        /\ Concat(fr.yielded) =
                               Concat(SubSeq(fr.yielded, 1, n - 1))
                                   \o HistoryLast.content
                        /\ Concat(SubSeq(fr.yielded, 1, n - 1)) # <<>>
                   ELSE Concat(fr.yielded) = HistoryLast.content

\* C2 witness: a stream that delivered two fragments and ended normally.
C2_Witness ==
    \E s \in StreamIds :
        /\ streams[s].pc = "done"
        /\ ~streams[s].gateway_failed
        /\ Len(streams[s].yielded) = 2
        /\ HistoryLast.content = <<"a", "b">>

\* C3: when the gateway stream fails (at creation or after any number of
\* fragments), exactly one fixed error fragment is yielded after the
\* failure and none after it, and the assistant entry and the response
\* given to the feedback system are exactly that error fragment, whatever
\* was accumulated before.
C3_StreamFailure ==
    \A s \in StreamIds :
        LET fr == streams[s]
            n == Len(fr.yielded)
        IN  fr.gateway_failed =>
                /\ n >= 1
                /\ fr.yielded[n] = <<"I apologize, but I encountered an error.">>
                /\ \A i \in 1..(n - 1) : fr.yielded[i] = Fragment(i)
                /\ fr.pc \in {"yielded_error", "done", "raised", "closed"}
                /\ ConsumedToEnd(fr) =>
                       /\ HistoryLast =
                              [role |-> "assistant", content |-> fr.yielded[n]]
                       /\ Len(fr.relay) = (IF enable_rlhf THEN 1 ELSE 0)
                       /\ \A i \in 1..Len(fr.relay) :
                              fr.relay[i].response = fr.yielded[n]

\* C3 witness: the gateway stream failed after one fragment, and the turn
\* was consumed to its end with feedback enabled.
C3_Witness ==
    \E s \in StreamIds :
        /\ streams[s].gateway_failed
        /\ streams[s].pc = "done"
        /\ Len(streams[s].yielded) = 2
        /\ Len(streams[s].relay) = 1

\* C4: if the caller closes a stream_chat stream after k >= 1 fragments and
\* before it is exhausted, the text accumulated so far is appended to the
\* history as an assistant entry, so that the turn's user entry is followed
\* by an assistant entry.
C4_CloseFlushesPartial ==
    \A s \in StreamIds :
        (streams[s].pc = "closed" /\ streams[s].yielded # <<>>) =>
            /\ conversation_history # <<>>
            /\ HistoryLast =
                   [role |-> "assistant",
                    content |-> streams[s].full_response]

\* C5: a failure of the feedback system never reaches the caller of a turn:
\* chat still returns the response and a fully consumed stream_chat still
\* ends normally, the history holding the complete turn.
C5_RelayFailureSwallowed ==
    \A fr \in Frames :
        (fr.relay # <<>>) =>
            /\ fr.pc \in {"returned", "done"}
            /\ fr.raised_by = "none"
            /\ HistoryLast =
                   [role |-> "assistant", content |-> fr.full_response]

\* C6: when the vector store raises or returns a malformed result in a
\* turn that queries it, the turn does not fail: it goes on as with zero
\* passages, with the raw user message as the prompt, empty context and
\* sources, and the gateway is called.
C6_RetrievalFailureDegrades ==
    \A fr \in Frames :
        (fr.query_calls = 1
            /\ (fr.retrieval.kind = "raises" \/ fr.retrieval \in MalformedResults)) =>
            /\ fr.pc # "raised"
            /\ fr.prompt = fr.user_message
            /\ fr.context = <<>>
            /\ fr.sources = <<>>
            /\ fr.gateway_calls = 1

\* The frames of the turns that assembled their prompt and appended their
\* user entry.
Turns == {fr \in Frames : fr.user_at > 0}

IsPrefix(a, b) == Len(a) <= Len(b) /\ SubSeq(b, 1, Len(a)) = a

\* C8: the stored history is never truncated or rewritten: every step other
\* than clear_history leaves it a prefix of the new history, saving leaves
\* it as it is, and the transcript saved holds every entry of the history in
\* order, those older than the window included.
C8_HistoryAppendOnly ==
    /\ [][clear_history
            \/ IsPrefix(conversation_history, conversation_history')]_vars
    /\ [][transcript'.written
            => conversation_history' = conversation_history]_vars
    /\ [](transcript.written =>
            /\ Len(transcript.blocks) = Len(conversation_history)
            /\ \A i \in 1..Len(conversation_history) :
                 LET m == conversation_history[i]
                     b == transcript.blocks[i]
                 IN  /\ b[1] = (IF m.role = "user" THEN "USER" ELSE "ASSISTANT")
                     /\ b[2] = ":\n"
                     /\ SubSeq(b, 3, Len(b) - 1) = m.content
                     /\ b[Len(b)] = "\n\n")

\* C8 witness: a transcript saved from a history longer than the window.
C8_Witness ==
    /\ transcript.written
    /\ Len(conversation_history) = 12
    /\ Len(transcript.blocks) = 12

Contains(text, part) ==
    \E i \in 0..(Len(text) - Len(part)) :
        SubSeq(text, i + 1, i + Len(part)) = part

PassageTexts == {Doc1, Doc2}

GreetingForm(m) ==
    \E g \in {x \in greetings : Len(x) <= Len(m)} :
        \E i \in 1..(Len(m) - Len(g) + 1) :
            /\ \A k \in 1..Len(g) :
                   \/ m[i + k - 1] = g[k]
                   \/ <<m[i + k - 1], g[k]>> \in
                          {<<"H","h">>, <<"I","i">>, <<"Y","y">>,
                           <<"O","o">>, <<"U","u">>}
            /\ \A k \in 1..(i - 1) : m[k] \in {" ", "\n", "\t"}
            /\ \A k \in (i + Len(g))..Len(m) : m[k] \in {" ", "\n", "\t"}

\* C10: for a message that is a greeting after trimming and case folding, a
\* turn with use_rag true makes no call to the vector store, uses the raw
\* message as the prompt and has empty sources and context; in chat and in
\* stream_chat alike.
C10_GreetingSkipsRetrieval ==
    \A fr \in Frames :
        (fr.pc \notin {"none", "unused", "created"}
            /\ ~(fr.pc = "closed" /\ fr.user_at = 0)
            /\ fr.use_rag /\ GreetingForm(fr.user_message)) =>
            /\ fr.query_calls = 0
            /\ fr.retrieval = NoQuery
            /\ fr.user_at > 0
            /\ fr.prompt = fr.user_message
            /\ fr.sources = <<>>
            /\ fr.context = <<>>

\* C10 witness: a stream_chat turn for " Hi " with use_rag true has run.
C10_Witness ==
    \E s \in StreamIds :
        /\ streams[s].pc = "yielded_token"
        /\ streams[s].use_rag
        /\ streams[s].user_message = <<" ", "H", "i", " ">>
        /\ streams[s].prompt = <<" ", "H", "i", " ">>

\* The vector store answered the query with no passage at all.
ZeroPassages(r) ==
    /\ r.kind = "dict"
    /\ r.documents # <<>>
    /\ r.documents[1] = <<>>

\* The vector store answered the query with n >= 1 passages, each with its
\* metadata and a source in it.
SomePassages(r) ==
    /\ r.kind = "dict"
    /\ r.documents # <<>>
    /\ r.metadatas # <<>>
    /\ Len(r.documents[1]) >= 1
    /\ Len(r.metadatas[1]) = Len(r.documents[1])
    /\ \A j \in 1..Len(r.metadatas[1]) : r.metadatas[1][j].has_source

\* The frame's body ran as far as the retrieval step.
Ran(fr) == fr.user_at > 0 \/ fr.pc = "raised"

\* C11: whenever retrieval is skipped (greeting, or use_rag false) or the
\* vector store returns zero passages, the prompt appended to the history
\* and sent to the gateway is the raw user message exactly, and the sources
\* and the context handed to the feedback system are empty.
C11_NoPassagesRawPrompt ==
    /\ \A fr \in Frames :
        (Ran(fr)
            /\ \/ ~fr.use_rag
               \/ GreetingForm(fr.user_message)
               \/ ZeroPassages(fr.retrieval)) =>
            /\ fr.user_at > 0
            /\ fr.prompt = fr.user_message
            /\ fr.messages[Len(fr.messages)] =
                   [role |-> "user", content |-> fr.user_message]
            /\ fr.sources = <<>>
            /\ fr.context = <<>>
            /\ \A i \in 1..Len(fr.relay) : fr.relay[i].context = <<>>
    /\ (last_chat.pc = "returned"
            /\ \/ ~last_chat.use_rag
               \/ GreetingForm(last_chat.user_message)
               \/ ZeroPassages(last_chat.retrieval)) =>
            conversation_history[last_chat.user_at] =
                [role |-> "user", content |-> last_chat.user_message]

\* C11 witness: a chat turn for a question with use_rag true got zero
\* passages from the vector store and notified the feedback system.
C11_Witness ==
    /\ last_chat.pc = "returned"
    /\ last_chat.use_rag
    /\ last_chat.user_message = <<"y", "o", "u">>
    /\ last_chat.query_calls = 1
    /\ ZeroPassages(last_chat.retrieval)
    /\ Len(last_chat.relay) = 1
    /\ HistoryLast.role = "assistant"

\* The places of the text at which the part begins.
Positions(text, part) ==
    {i \in 1..Len(text) :
        /\ i + Len(part) - 1 <= Len(text)
        /\ SubSeq(text, i, i + Len(part) - 1) = part}

\* The parts from the k-th on occur in the text one after the other, in the
\* order given, at or after the place start.
RECURSIVE InOrderFrom(_, _, _, _)
InOrderFrom(text, parts, k, start) ==
    \/ k > Len(parts)
    \/ \E i \in start..(Len(text) - Len(parts[k]) + 1) :
           /\ SubSeq(text, i, i + Len(parts[k]) - 1) = parts[k]
           /\ InOrderFrom(text, parts, k + 1, i + Len(parts[k]))

\* The parts occur in the text one after the other, in the order given.
ContainsInOrder(text, parts) == InOrderFrom(text, parts, 1, 1)

\* C12: for a message that is not a greeting, with use_rag true and a
\* vector store result of n >= 1 passages, the prompt contains the text of
\* each of the n passages in retrieval order and the original question,
\* differs from the raw message, and sources lists the n passages' sources
\* in the same order, one per passage.
C12_PassagesInPrompt ==
    \A fr \in Frames :
        (Ran(fr)
            /\ fr.use_rag
            /\ ~GreetingForm(fr.user_message)
            /\ SomePassages(fr.retrieval)) =>
            LET docs == fr.retrieval.documents[1]
                metas == fr.retrieval.metadatas[1]
            IN  /\ fr.user_at > 0
                /\ ContainsInOrder(fr.prompt, docs)
                /\ Contains(fr.prompt, fr.user_message)
                /\ fr.prompt # fr.user_message
                /\ fr.messages[Len(fr.messages)] =
                       [role |-> "user", content |-> fr.prompt]
                /\ Len(fr.sources) = Len(docs)
                /\ \A j \in 1..Len(docs) : fr.sources[j] = metas[j].source

\* C12 witness: a stream_chat turn for a question got two passages and its
\* prompt holds the second passage somewhere after the first.
C12_Witness ==
    \E s \in StreamIds :
        /\ streams[s].pc = "yielded_token"
        /\ streams[s].user_message = <<"y", "o", "u">>
        /\ SomePassages(streams[s].retrieval)
        /\ Len(streams[s].retrieval.documents[1]) = 2
        /\ streams[s].sources = << <<"faq.md">>, <<"pricing.md">> >>
        /\ \E i \in Positions(streams[s].prompt, Doc1) :
               \E j \in Positions(streams[s].prompt, Doc2) : i < j

\* C13: clear_history drops every message: after it the history is empty
\* whatever its length was, and a turn that begins on the emptied history
\* sends the gateway exactly the system prompt followed by its own single
\* user entry, nothing older.
C13_ClearDropsAll ==
    /\ [][clear_history => conversation_history' = <<>>]_vars
    /\ [](\A fr \in Turns :
            fr.started_with = <<>> =>
                /\ fr.user_at = 1
                /\ fr.messages =
                       << [role |-> "system", content |-> system_prompt],
                          [role |-> "user", content |-> fr.prompt] >>)

\* C13 witness: the history is empty although a stream_chat turn in flight
\* had appended its user entry as the eleventh message: it was cleared.
C13_Witness ==
    /\ conversation_history = <<>>
    /\ \E s \in StreamIds :
        /\ streams[s].pc = "yielded_token"
        /\ streams[s].user_at = 11

\* C14: a turn with feedback enabled that reaches its end notifies the
\* feedback system exactly once, the assistant entry being in the history by
\* then, with the raw user message (not the prompt), the response text that
\* was appended and the context of this turn; with feedback disabled no
\* turn notifies it.
C14_RelayOncePerTurn ==
    [](\A fr \in Frames :
          /\ Len(fr.relay) <= 1
          /\ ~enable_rlhf => fr.relay = <<>>
          /\ (fr.pc \in {"none", "unused", "created", "yielded_token",
                         "yielded_error", "closed"}
                 \/ (fr.pc = "raised" /\ fr.raised_by = "retrieval")) =>
                 fr.relay = <<>>
          /\ (enable_rlhf
                 /\ (fr.pc \in {"returned", "done"}
                        \/ (fr.pc = "raised" /\ fr.raised_by = "relay"))) =>
                 /\ Len(fr.relay) = 1
                 /\ conversation_history # <<>>
                 /\ HistoryLast.role = "assistant"
                 /\ fr.relay[1].question = fr.user_message
                 /\ fr.relay[1].response = HistoryLast.content
                 /\ fr.relay[1].context = fr.context
                 /\ (SomePassages(fr.retrieval) /\ fr.query_calls = 1) =>
                        /\ fr.relay[1].context # <<>>
                        /\ \A j \in 1..Len(fr.retrieval.documents[1]) :
                               Positions(fr.relay[1].context,
                                         fr.retrieval.documents[1][j]) # {})

\* C14 witness: a stream_chat turn with passages ended and notified the
\* feedback system once, with a question that is not its prompt.
C14_Witness ==
    /\ enable_rlhf
    /\ \E s \in StreamIds :
        /\ streams[s].pc = "done"
        /\ Len(streams[s].relay) = 1
        /\ streams[s].relay[1].context # <<>>
        /\ streams[s].relay[1].question # streams[s].prompt
        /\ streams[s].relay[1].response = <<"a", "b">>

\* No other operation touched the history between the turn's user entry
\* and its assistant entry, nor after it.
Undisturbed(fr) ==
    /\ fr.user_at > 0
    /\ ~fr.cleared
    /\ Len(conversation_history) = fr.user_at + 1
    /\ SubSeq(conversation_history, 1, fr.user_at - 1) = fr.started_with

\* What chat leaves for the history the frame began with, its message, its
\* vector store result and its gateway outcome (lines 157-220).
ChatOutcome(fr) ==
    LET b == chat_prompt(fr.user_message, fr.use_rag, fr.retrieval)
        g == [fails |-> fr.gateway_failed,
              text |-> IF fr.gateway_failed THEN <<>> ELSE Concat(fr.yielded)]
    IN  [history |->
             fr.started_with
                 \o << chat_user_entry(fr.user_message, b.prompt),
                       Message("assistant", chat_response(g)) >>,
         relay |->
             IF enable_rlhf
             THEN << [question |-> fr.user_message,
                      response |-> chat_response(g),
                      context |-> b.context] >>
             ELSE <<>>]

\* C15 (as claimed): for the same starting history, user message, vector
\* store result and gateway outcome (success with text T, or failure), a
\* stream_chat consumed to the end leaves the history chat leaves and makes
\* the notification chat makes.
C15_StreamEndsLikeChat_Claimed ==
    \A s \in StreamIds :
        (ConsumedToEnd(streams[s]) /\ Undisturbed(streams[s])) =>
            /\ conversation_history = ChatOutcome(streams[s]).history
            /\ streams[s].relay = ChatOutcome(streams[s]).relay

\* C15 (amended): when the gateway succeeds the two paths leave the same
\* history and make the same notification; when it fails they agree on
\* everything but the response text, chat's being the stream's error text
\* followed by " Please try again.".
C15_StreamEndsLikeChat ==
    \A s \in StreamIds :
        LET fr == streams[s]
            c == ChatOutcome(fr)
            n == Len(c.history)
        IN  (ConsumedToEnd(fr) /\ Undisturbed(fr)) =>
                IF ~fr.gateway_failed
                THEN /\ conversation_history = c.history
                     /\ fr.relay = c.relay
                ELSE /\ Len(conversation_history) = n
                     /\ SubSeq(conversation_history, 1, n - 1) =
                            SubSeq(c.history, 1, n - 1)
                     /\ HistoryLast.role = "assistant"
                     /\ c.history[n].role = "assistant"
                     /\ c.history[n].content =
                            HistoryLast.content \o <<" Please try again.">>
                     /\ Len(fr.relay) = Len(c.relay)
                     /\ \A i \in 1..Len(fr.relay) :
                            /\ fr.relay[i].question = c.relay[i].question
                            /\ fr.relay[i].context = c.relay[i].context
                            /\ fr.relay[i].response = HistoryLast.content
                            /\ c.relay[i].response =
                                   fr.relay[i].response
                                       \o <<" Please try again.">>

\* C15 witness: a stream_chat turn with passages whose gateway stream
\* failed was consumed to the end with nothing in between.
C15_Witness ==
    \E s \in StreamIds :
        /\ streams[s].pc = "done"
        /\ streams[s].gateway_failed
        /\ streams[s].context # <<>>
        /\ Len(streams[s].relay) = 1
        /\ Undisturbed(streams[s])

\* C16: in stream_chat every fragment with content received from the
\* gateway is added to the accumulated response and yielded to the caller
\* before the next chunk is asked for, in the gateway's order: whenever the
\* generator is suspended the chunks asked for end with the one whose
\* content was just yielded, so nothing is fetched ahead of the caller.
C16_YieldBeforeNextRequest ==
    [](\A s \in StreamIds :
          LET fr == streams[s]
              tokens == IF fr.gateway_failed
                        THEN SubSeq(fr.yielded, 1, Len(fr.yielded) - 1)
                        ELSE fr.yielded
          IN  /\ \A i \in 1..Len(fr.received) : fr.received[i] = <<Reply[i]>>
              /\ tokens = fr.received
              /\ ~fr.gateway_failed => fr.full_response = Concat(fr.received)
              /\ fr.pc \in {"unused", "created"} =>
                     fr.requested = 0 /\ fr.received = <<>>
              /\ fr.pc = "yielded_token" =>
                     /\ fr.received # <<>>
                     /\ fr.requested = 1 + Len(fr.received)
                     /\ fr.yielded[Len(fr.yielded)] =
                            fr.received[Len(fr.received)]
              /\ fr.requested <= 2 + Len(fr.received))

\* C16 witness: a generator suspended after its second fragment, having
\* asked the gateway for three chunks, the first of them without content.
C16_Witness ==
    \E s \in StreamIds :
        /\ streams[s].pc = "yielded_token"
        /\ streams[s].yielded = << <<"a">>, <<"b">> >>
        /\ streams[s].requested = 3
        /\ streams[s].full_response = <<"a", "b">>

\* What the loop compares: the input trimmed, its letters in lower case.
Typed == Lower(Strip(loop.raw))

\* The loop has handled an input (it was not interrupted instead).
Handled == loop.did \notin {"none", "interrupt"}

Alternates(h) ==
    /\ Len(h) % 2 = 0
    /\ \A i \in 1..Len(h) :
           h[i].role = (IF i % 2 = 1 THEN "user" ELSE "assistant")

\* C18: after any sequence of serialized operations (chat, stream_chat
\* consumed to the end, clear_history, save_conversation), also when the
\* gateway, the vector store or the feedback system fails in a turn, the
\* history has even length and alternates user, assistant from a user
\* entry on; a turn that raises to its caller leaves the history as it was
\* or longer by one complete user/assistant pair.
C18_HistoryAlternates ==
    /\ ~InFlight => Alternates(conversation_history)
    /\ \A fr \in Frames :
        fr.pc = "raised" =>
            \/ conversation_history = fr.started_with
            \/ /\ Len(conversation_history) = Len(fr.started_with) + 2
               /\ SubSeq(conversation_history, 1, Len(fr.started_with)) =
                      fr.started_with
               /\ conversation_history[Len(fr.started_with) + 1] =
                      [role |-> "user", content |-> fr.prompt]
               /\ HistoryLast.role = "assistant"

\* C18 witness: a stream_chat turn on a history of ten messages whose
\* gateway stream ended without any fragment and whose feedback call raised:
\* the history holds twelve messages.
C18_Witness ==
    /\ Len(conversation_history) = 12
    /\ \E s \in StreamIds :
        /\ streams[s].pc = "raised"
        /\ streams[s].raised_by = "relay"
        /\ streams[s].yielded = <<>>
        /\ HistoryLast = [role |-> "assistant", content |-> <<>>]

\* C19 (as claimed): after clear_history the history never holds a message
\* of a turn that began before the clear, also when that turn is a
\* stream_chat generator in flight at the clear and taken to its end after.
C19_NoStaleMessages_Claimed ==
    \A s \in StreamIds :
        (streams[s].cleared /\ ConsumedToEnd(streams[s])) =>
            \A i \in 1..Len(conversation_history) :
                conversation_history[i] \notin
                    { [role |-> "user", content |-> streams[s].prompt],
                      [role |-> "assistant",
                       content |-> streams[s].full_response] }

\* C19 (amended): clear_history leaves no message that was appended before
\* it; but a stream_chat generator in flight at the clear, taken to its end
\* afterwards, appends its assistant entry to the cleared history, which
\* then ends with the response of a turn that began before the clear.
C19_NoStaleMessages ==
    /\ [][clear_history => conversation_history' = <<>>]_vars
    /\ [](\A s \in StreamIds :
            streams[s].cleared =>
                /\ streams[s].user_at > 0
                /\ ConsumedToEnd(streams[s]) =>
                       /\ conversation_history # <<>>
                       /\ HistoryLast =
                              [role |-> "assistant",
                               content |-> streams[s].full_response])
    /\ [][\A s \in StreamIds :
            (streams[s].cleared /\ ~Ended(streams[s])
                 /\ ConsumedToEnd(streams'[s])) =>
                Len(conversation_history') = Len(conversation_history) + 1]_vars

\* C19 witness: the history was cleared under a generator that had yielded
\* "a"; taken to its end, it left its response as the only entry.
C19_Witness ==
    \E s \in StreamIds :
        /\ streams[s].cleared
        /\ streams[s].pc = "done"
        /\ streams[s].user_at = 11
        /\ conversation_history =
               << [role |-> "assistant", content |-> <<"a", "b">>] >>

\* C20: calling stream_chat has no effect until the caller asks for the
\* first fragment: the call makes no retrieval call, no history append and
\* no gateway call; the user entry is appended and the window taken from
\* the history as it is when the generator is first advanced, so in the
\* order of first advance, not of the calls; a generator never advanced
\* leaves the history as it was.
C20_StreamChatIsLazy ==
    /\ [](\A s \in StreamIds :
            streams[s].pc = "created" =>
                /\ streams[s].query_calls = 0
                /\ streams[s].retrieval.kind = "no-query"
                /\ streams[s].user_at = 0
                /\ streams[s].gateway_calls = 0
                /\ streams[s].requested = 0
                /\ streams[s].messages = <<>>)
    /\ [][\A s \in StreamIds :
            (streams[s].pc # "created" /\ streams'[s].pc = "created") =>
                conversation_history' = conversation_history]_vars
    /\ [][\A s \in StreamIds :
            (streams[s].pc = "created" /\ streams'[s].pc = "closed") =>
                conversation_history' = conversation_history]_vars
    /\ [][\A s \in StreamIds :
            (streams[s].pc = "created" /\ streams'[s].user_at > 0) =>
                LET fr == streams'[s]
                    n == Len(conversation_history)
                    w == IF n + 1 < 10 THEN n + 1 ELSE 10
                IN  /\ fr.started_with = conversation_history
                    /\ fr.user_at = n + 1
                    /\ Len(conversation_history') >= n + 1
                    /\ SubSeq(conversation_history', 1, n) =
                           conversation_history
                    /\ conversation_history'[n + 1] =
                           [role |-> "user", content |-> fr.prompt]
                    /\ Len(fr.messages) = 1 + w
                    /\ \A i \in 1..w :
                           fr.messages[1 + i] =
                               conversation_history'[n + 1 - w + i]]_vars

\* C20 witness: of two generators in flight, the one called second was
\* advanced first and its user entry stands before the other's.
C20_Witness ==
    \E s, t \in StreamIds :
        /\ streams[s].seq < streams[t].seq
        /\ streams[s].pc = "yielded_token"
        /\ streams[t].pc = "yielded_token"
        /\ streams[t].user_at > 0
        /\ streams[t].user_at < streams[s].user_at
        /\ streams[s].started_with # streams[t].started_with

====
